---------------------------- MODULE Spec2Model ----------------------------
(***************************************************************************)
(* A model of profile_firebase.py: the control loop of main, one capture   *)
(* cycle of run_profiler, end_process, and the interval computation        *)
(* get_time_until_next_interval_start.                                     *)
(*                                                                         *)
(* Time.  A datetime.timedelta is modelled as the normalised pair          *)
(* <<seconds, microseconds>> (0 <= microseconds < 10^6), which is how      *)
(* Python stores it; a datetime is the pair counted from midnight of a     *)
(* reference day.  All arithmetic is exact on the pairs.                   *)
(***************************************************************************)
EXTENDS Integers, Sequences, FiniteSets, TLC

\* Resolution of datetime/timedelta: microseconds per second.
MicrosPerSecond == 1000000

\* Seconds in 24 hours, datetime.timedelta(hours=24).
SecondsPerDay == 86400

\* Bound of the model: the number of cycles the control loop starts.
MaxCycles == 2

-----------------------------------------------------------------------------
(* timedelta arithmetic *)

Td(s, us) == <<s, us>>

TdZero == Td(0, 0)

TdLess(a, b) == a[1] < b[1] \/ (a[1] = b[1] /\ a[2] < b[2])

TdLeq(a, b) == a = b \/ TdLess(a, b)

TdAdd(a, b) ==
    IF a[2] + b[2] >= MicrosPerSecond
    THEN Td(a[1] + b[1] + 1, a[2] + b[2] - MicrosPerSecond)
    ELSE Td(a[1] + b[1], a[2] + b[2])

\* a - b for b <= a.
TdSub(a, b) ==
    IF a[2] >= b[2]
    THEN Td(a[1] - b[1], a[2] - b[2])
    ELSE Td(a[1] - b[1] - 1, a[2] + MicrosPerSecond - b[2])

\* a % p for p > 0: the remainder of the division of the microsecond counts,
\* by doubling: a mod p is (a mod 2p), less p when that is p or more.  The
\* singleton sets bind each intermediate value once.
RECURSIVE TdModBy(_, _)
TdModBy(a, p) ==
    IF TdLess(a, p) THEN a
    ELSE CHOOSE m \in { IF TdLess(r, p) THEN r ELSE TdSub(r, p) :
                           r \in { TdModBy(a, q) : q \in {TdAdd(p, p)} } } : TRUE

TdMod(a, p) == CHOOSE m \in { TdModBy(x, y) : x \in {a}, y \in {p} } : TRUE

\* timedelta.total_seconds() == 0
TotalSecondsIsZero(a) == a = TdZero

-----------------------------------------------------------------------------
(* Program constants *)

LOGFILE_PERIOD == Td(1800, 0)

PROFILER_OUTPUT_WAIT_TIMEOUT == Td(30, 0)

SIGTERM_GRACE_PERIOD == Td(5, 0)

SIGNAL_SUCCESS_CHECK_POLL_FREQUENCY == Td(0, 100000)

Hours24 == Td(SecondsPerDay, 0)

-----------------------------------------------------------------------------
(* get_time_until_next_interval_start *)

\* The outcome of a call: a value, or the exception it raised.
Returned(v) == [raised |-> "none", value |-> v]

Raised(e) == [raised |-> e, value |-> TdZero]

\* datetime.time(): the fields of the time of day.
TimeHour(dt) == (dt[1] % SecondsPerDay) \div 3600

TimeMinute(dt) == ((dt[1] % SecondsPerDay) % 3600) \div 60

TimeSecond(dt) == (dt[1] % SecondsPerDay) % 60

TimeMicrosecond(dt) == dt[2]

\* current_time_as_dt built without the microseconds of line 64.
TimeOfDayWholeSeconds(current_datetime) ==
    Td(TimeHour(current_datetime) * 60 * 60 + TimeMinute(current_datetime) * 60
           + TimeSecond(current_datetime),
       0)

\* current_time_as_dt, lines 61-65.
TimeOfDayAsTimedelta(current_datetime) ==
    Td(TimeHour(current_datetime) * 60 * 60 + TimeMinute(current_datetime) * 60
           + TimeSecond(current_datetime),
       TimeMicrosecond(current_datetime))

\* The returned remainder as a plausible slip would compute it: reduced modulo
\* the period once more, so that a boundary yields zero.
RemainderToBoundaryWrapped(current_time_as_dt, interval_period) ==
    TdMod(TdSub(interval_period, TdMod(current_time_as_dt, interval_period)),
          interval_period)

\* Line 66.
RemainderToBoundary(current_time_as_dt, interval_period) ==
    TdSub(interval_period, TdMod(current_time_as_dt, interval_period))

get_time_until_next_interval_start(current_datetime, interval_period) ==
    IF ~TdLeq(interval_period, Hours24) THEN Raised("AssertionError")
    ELSE IF interval_period = TdZero THEN Raised("ZeroDivisionError")
    ELSE IF ~TotalSecondsIsZero(TdMod(Hours24, interval_period))
         THEN Raised("AssertionError")
    ELSE Returned(RemainderToBoundary(TimeOfDayAsTimedelta(current_datetime),
                                      interval_period))

-----------------------------------------------------------------------------
(* Text: bytes.decode('UTF-8') and the strings the program builds.  A byte   *)
(* string is a sequence of numbers 0..255, a text a sequence of code points, *)
(* a file name a sequence of one-character strings.                          *)

IsContinuation(b) == b >= 128 /\ b <= 191

\* The number of bytes of the character a lead byte starts; 0 for a byte that
\* cannot start one.
Utf8Length(b) ==
    IF b <= 127 THEN 1
    ELSE IF b >= 194 /\ b <= 223 THEN 2
    ELSE IF b >= 224 /\ b <= 239 THEN 3
    ELSE IF b >= 240 /\ b <= 244 THEN 4
    ELSE 0

\* Whether bs starts with one well-formed character of n bytes.
Utf8WellFormed(bs, n) ==
    /\ n > 0
    /\ Len(bs) >= n
    /\ \A i \in 2..n : IsContinuation(bs[i])
    /\ (bs[1] = 224 => bs[2] >= 160)
    /\ (bs[1] = 237 => bs[2] <= 159)
    /\ (bs[1] = 240 => bs[2] >= 144)
    /\ (bs[1] = 244 => bs[2] <= 143)

Utf8CodePoint(bs, n) ==
    IF n = 1 THEN bs[1]
    ELSE IF n = 2 THEN (bs[1] - 192) * 64 + (bs[2] - 128)
    ELSE IF n = 3 THEN (bs[1] - 224) * 4096 + (bs[2] - 128) * 64 + (bs[3] - 128)
    ELSE (bs[1] - 240) * 262144 + (bs[2] - 128) * 4096 + (bs[3] - 128) * 64
             + (bs[4] - 128)

\* The decoding of bs from position i on: the text, or ok = FALSE.
RECURSIVE Utf8DecodeFrom(_, _)
Utf8DecodeFrom(bs, i) ==
    IF i > Len(bs) THEN [ok |-> TRUE, text |-> <<>>]
    ELSE CHOOSE d \in
           { IF ~Utf8WellFormed(c, n) THEN [ok |-> FALSE, text |-> <<>>]
             ELSE CHOOSE r \in
                    { IF rest.ok
                      THEN [ok |-> TRUE, text |-> <<Utf8CodePoint(c, n)>> \o rest.text]
                      ELSE rest : rest \in {Utf8DecodeFrom(bs, j)} } : TRUE
             : c \in {SubSeq(bs, i, Len(bs))}, n \in {Utf8Length(bs[i])}, j \in {i + Utf8Length(bs[i])} } : TRUE

\* bytes.decode("UTF-8"), errors='strict': the text, or ok = FALSE for the
\* UnicodeDecodeError.
Utf8Decode(bs) == CHOOSE d \in { Utf8DecodeFrom(x, 1) : x \in {bs} } : TRUE

Digits == <<"0", "1", "2", "3", "4", "5", "6", "7", "8", "9">>

\* A number below 100 as two digits.
TwoDigits(n) == <<Digits[(n \div 10) + 1], Digits[(n % 10) + 1]>>

\* A number below 10^6 as six digits.
SixDigits(n) == TwoDigits(n \div 10000) \o TwoDigits((n \div 100) % 100) \o TwoDigits(n % 100)

\* The date of a datetime: the reference day is 2023-05-01, and the model's
\* runs stay within that month.
DateChars(dt) == <<"2", "0", "2", "3", "-", "0", "5", "-">> \o TwoDigits(1 + (dt[1] \div SecondsPerDay))

\* datetime.replace(microsecond=0)
ReplaceMicrosecondZero(dt) == Td(dt[1], 0)

\* datetime.isoformat() of a datetime whose tzinfo is UTC.
IsoFormat(dt) ==
    DateChars(dt) \o <<"T">> \o TwoDigits(TimeHour(dt)) \o <<":">>
        \o TwoDigits(TimeMinute(dt)) \o <<":">> \o TwoDigits(TimeSecond(dt))
        \o (IF TimeMicrosecond(dt) = 0 THEN <<>>
            ELSE <<".">> \o SixDigits(TimeMicrosecond(dt)))
        \o <<"+", "0", "0", ":", "0", "0">>

\* Whether old occurs in s at position i.
OccursAt(s, i, old) == i + Len(old) - 1 <= Len(s) /\ SubSeq(s, i, i + Len(old) - 1) = old

\* s from position i on, with every occurrence of old replaced by new.
RECURSIVE StrReplaceFrom(_, _, _, _)
StrReplaceFrom(s, i, old, new) ==
    IF i > Len(s) THEN <<>>
    ELSE IF OccursAt(s, i, old)
         THEN new \o StrReplaceFrom(s, i + Len(old), old, new)
         ELSE <<s[i]>> \o StrReplaceFrom(s, i + 1, old, new)

\* str.replace(old, new) for a non-empty old.
StrReplace(s, old, new) == CHOOSE r \in { StrReplaceFrom(x, 1, old, new) : x \in {s} } : TRUE

\* The formatting without line 42: the microseconds are kept.
FormatKeepingMicroseconds(value) ==
    StrReplace(
        StrReplace(IsoFormat(value), <<"+", "0", "0", ":", "0", "0">>, <<"Z">>),
        <<":">>, <<"-">>)

\* Lines 42-47.
format_datetime_for_filename(value) ==
    StrReplace(
        StrReplace(IsoFormat(ReplaceMicrosecondZero(value)),
                   <<"+", "0", "0", ":", "0", "0">>, <<"Z">>),
        <<":">>, <<"-">>)

-----------------------------------------------------------------------------
(* Python values whose type decides an operation: time.time() is a float, the *)
(* timing constants are datetime.timedelta objects.                           *)

PyFloat(v) == [type |-> "float", val |-> v]

PyTimedelta(v) == [type |-> "timedelta", val |-> v]

PyTypeError == [type |-> "TypeError", val |-> TdZero]

\* x + y: float + float and timedelta + timedelta are defined; float +
\* timedelta is not (neither operand's type implements it) and raises TypeError.
PyAdd(x, y) ==
    IF x.type = "TypeError" \/ y.type = "TypeError" THEN PyTypeError
    ELSE IF x.type = y.type THEN [type |-> x.type, val |-> TdAdd(x.val, y.val)]
    ELSE PyTypeError

\* x - y, for y <= x.
PySub(x, y) ==
    IF x.type = "TypeError" \/ y.type = "TypeError" THEN PyTypeError
    ELSE IF x.type = y.type THEN [type |-> x.type, val |-> TdSub(x.val, y.val)]
    ELSE PyTypeError

-----------------------------------------------------------------------------
(* The state *)

VARIABLES
    pc,             \* where the controller is
    clock,          \* the wall clock, datetime.datetime.utcnow()
    cycles,         \* the number of cycles the loop has started
    args,           \* args.fb_project, args.output_format_raw
    run_start_time, \* main: current_time, run_start_time
    run_length,     \* main: run_length
    procs,          \* every subordinate launched so far, in launch order
    stdout,         \* run_profiler: the bytes communicate() returned
    sigterm_time,   \* end_process: sigterm_time
    err,            \* the exception in flight
    data,           \* main: data
    files,          \* the output folder: a set of [name, content]
    log,            \* the records logging wrote
    cycle_files,    \* history: the output folder when the cycle began
    interval_call,  \* a call of get_time_until_next_interval_start on its own
    format_call,    \* a call of format_datetime_for_filename on its own
    logfile_period  \* the module constant LOGFILE_PERIOD as the program was configured

vars == <<pc, clock, cycles, args, run_start_time, run_length, procs, stdout,
          sigterm_time, err, data, files, log, cycle_files, interval_call, format_call, logfile_period>>

\* What the subordinate does about requests to end: "any" may exit at any
\* moment (on its own, on the stop token, late); "onTerm" exits only once
\* terminate() reached it; "onKill" ignores the stop token and SIGTERM.
Behaviours == {"any", "onTerm", "onKill"}

\* What a subordinate has written to its pipes when it is collected, as
\* stdout / stderr: "hi" / "w"; U+00E9 / a truncated character; a byte that is
\* no UTF-8 / "".
ProcOutputs ==
    { [stdout |-> <<104, 105>>, stderr |-> <<119>>],
      [stdout |-> <<195, 169>>, stderr |-> <<195>>],
      [stdout |-> <<255>>, stderr |-> <<>>] }

\* The times at which the program is started: 00:15:30.123456, exactly on a
\* grid boundary, and one microsecond before midnight.
StartTimes == { Td(930, 123456), Td(1800, 0), Td(86399, 999999) }

\* How long Popen takes.
LaunchLatencies == { Td(0, 150000) }

\* How long a Popen that fails takes.
LaunchFailureLatencies == { Td(0, 1000) }

\* How long a wait that ends with the process's exit has blocked: shortly, or
\* until one microsecond before the deadline.
ExitLatencies(timeout) == { d \in { Td(0, 200000), TdSub(timeout, Td(0, 1)) } : TdLess(d, timeout) }

NoError == [type |-> "none", text |-> "", stdout |-> <<>>, stderr |-> <<>>]

NoIntervalCall == [current_datetime |-> TdZero, interval_period |-> TdZero, done |-> FALSE, result |-> Returned(TdZero)]

NoFormatCall == [value |-> TdZero, done |-> FALSE, result |-> <<>>]

\* The process of the current cycle.
Cur == Len(procs)

Alive(i) == procs[i].state = "running"

AliveProcs == { i \in 1..Len(procs) : Alive(i) }

Init ==
    /\ pc = "Scheduling"
    /\ clock \in StartTimes
    /\ cycles = 0
    /\ args \in { [fb_project |-> <<"d", "b">>, output_format_raw |-> raw] : raw \in BOOLEAN }
    /\ run_start_time = TdZero
    /\ run_length = TdZero
    /\ procs = <<>>
    /\ stdout = <<>>
    /\ sigterm_time = PyFloat(TdZero)
    /\ err = NoError
    /\ data = <<>>
    /\ files = {}
    /\ log = <<>>
    /\ cycle_files = {}
    /\ interval_call = NoIntervalCall
    /\ format_call = NoFormatCall
    /\ logfile_period = LOGFILE_PERIOD

-----------------------------------------------------------------------------
(* main: the control loop, lines 137-157 *)

\* Schedule with the clock read once, before the loop: every cycle after the
\* first computes its window from the first cycle's time.
ScheduleStaleClock ==
    /\ pc = "Scheduling"
    /\ cycles < MaxCycles
    /\ LET now == IF cycles = 0 THEN clock ELSE run_start_time
           r   == get_time_until_next_interval_start(now, logfile_period)
       IN  IF r.raised = "none"
           THEN /\ run_start_time' = now
                /\ run_length' = r.value
                /\ log' = Append(log,
                       [level |-> "INFO", message |-> "Starting profile",
                        detail |-> <<IsoFormat(ReplaceMicrosecondZero(now)),
                                     IsoFormat(ReplaceMicrosecondZero(TdAdd(now, r.value)))>>])
                /\ pc' = "launch"
                /\ err' = NoError
           ELSE /\ err' = [NoError EXCEPT !.type = r.raised]
                /\ pc' = "terminated"
                /\ UNCHANGED <<run_start_time, run_length, log>>
    /\ cycles' = cycles + 1
    /\ cycle_files' = files
    /\ UNCHANGED <<clock, args, procs, stdout, sigterm_time, data, files, interval_call, format_call, logfile_period>>

\* Schedule with line 139 inside the try of lines 146-151: what it raises goes
\* to the handler.
ScheduleInsideTry ==
    /\ pc = "Scheduling"
    /\ cycles < MaxCycles
    /\ LET r == get_time_until_next_interval_start(clock, logfile_period)
       IN  IF r.raised = "none"
           THEN /\ run_start_time' = clock
                /\ run_length' = r.value
                /\ log' = Append(log,
                       [level |-> "INFO", message |-> "Starting profile",
                        detail |-> <<IsoFormat(ReplaceMicrosecondZero(clock)),
                                     IsoFormat(ReplaceMicrosecondZero(TdAdd(clock, r.value)))>>])
                /\ pc' = "launch"
                /\ err' = NoError
           ELSE /\ err' = [NoError EXCEPT !.type = r.raised]
                /\ pc' = "raised"
                /\ UNCHANGED <<run_start_time, run_length, log>>
    /\ cycles' = cycles + 1
    /\ cycle_files' = files
    /\ UNCHANGED <<clock, args, procs, stdout, sigterm_time, data, files, interval_call, format_call, logfile_period>>

\* Lines 138-144: read the clock, compute the window, log it.  The call of
\* get_time_until_next_interval_start is outside the try: what it raises ends
\* the loop.
Schedule ==
    /\ pc = "Scheduling"
    /\ cycles < MaxCycles
    /\ LET r == get_time_until_next_interval_start(clock, logfile_period)
       IN  IF r.raised = "none"
           THEN /\ run_start_time' = clock
                /\ run_length' = r.value
                /\ log' = Append(log,
                       [level |-> "INFO", message |-> "Starting profile",
                        detail |-> <<IsoFormat(ReplaceMicrosecondZero(clock)),
                                     IsoFormat(ReplaceMicrosecondZero(TdAdd(clock, r.value)))>>])
                /\ pc' = "launch"
                /\ err' = NoError
           ELSE /\ err' = [NoError EXCEPT !.type = r.raised]
                /\ pc' = "terminated"
                /\ UNCHANGED <<run_start_time, run_length, log>>
    /\ cycles' = cycles + 1
    /\ cycle_files' = files
    /\ UNCHANGED <<clock, args, procs, stdout, sigterm_time, data, files, interval_call, format_call, logfile_period>>

-----------------------------------------------------------------------------
(* run_profiler, lines 69-106 *)

\* A subordinate right after Popen.  cycle, launched_at, window_end and
\* terminated_at are history: the cycle that launched it, the clock at Popen,
\* the end of the window it was launched for (run_start_time + run_length),
\* and the clock at terminate().
NewProcess(beh, out, cycle, now, window_end) ==
    [state |-> "running", beh |-> beh, out |-> out, cycle |-> cycle,
     launched_at |-> now, window_end |-> window_end, stdin_writes |-> 0,
     stop_received |-> FALSE, terminates |-> 0, terminated_at |-> TdZero,
     kills |-> 0, collected |-> FALSE]

\* Lines 72-84: Popen starts the subordinate.
Popen ==
    /\ pc = "launch"
    /\ \E beh \in Behaviours, out \in ProcOutputs, d \in LaunchLatencies :
          /\ procs' = Append(procs, NewProcess(beh, out, cycles, clock,
                                              TdAdd(run_start_time, run_length)))
          /\ clock' = TdAdd(clock, d)
    /\ pc' = "wait"
    /\ UNCHANGED <<cycles, args, run_start_time, run_length, stdout, sigterm_time,
                   err, data, files, log, cycle_files, interval_call, format_call, logfile_period>>

\* Lines 72-84: Popen raises (the executable cannot be started); no process
\* exists.
PopenFails ==
    /\ pc = "launch"
    /\ \E d \in LaunchFailureLatencies : clock' = TdAdd(clock, d)
    /\ err' = [NoError EXCEPT !.type = "OSError", !.text = "Popen"]
    /\ pc' = "raised"
    /\ UNCHANGED <<cycles, args, run_start_time, run_length, procs, stdout,
                   sigterm_time, data, files, log, cycle_files, interval_call, format_call, logfile_period>>

\* Whether subordinate i may exit now.
MayExit(i) ==
    /\ Alive(i)
    /\ \/ procs[i].beh = "any"
       \/ procs[i].beh = "onTerm" /\ procs[i].terminates > 0
       \/ procs[i].kills > 0

\* The subordinate, running on its own beside the controller, exits.
ProcessExits(i) ==
    /\ MayExit(i)
    /\ procs' = [procs EXCEPT ![i].state = "exited"]
    /\ UNCHANGED <<pc, clock, cycles, args, run_start_time, run_length, stdout,
                   sigterm_time, err, data, files, log, cycle_files, interval_call, format_call, logfile_period>>

\* The timeout of line 86.
AwaitTimeout == TdAdd(run_length, PROFILER_OUTPUT_WAIT_TIMEOUT)

\* process.wait returning taken for the end of the await phase with nothing
\* more to check: the test of line 89 is passed over.
WaitReturnsSkipsPoll ==
    /\ pc = "wait"
    /\ ~Alive(Cur)
    /\ \E d \in ExitLatencies(AwaitTimeout) : clock' = TdAdd(clock, d)
    /\ pc' = "send_stop"
    /\ UNCHANGED <<cycles, args, run_start_time, run_length, procs, stdout,
                   sigterm_time, err, data, files, log, cycle_files, interval_call, format_call, logfile_period>>

\* Line 86: process.wait returns because the process has exited.
WaitReturns ==
    /\ pc = "wait"
    /\ ~Alive(Cur)
    /\ \E d \in ExitLatencies(AwaitTimeout) : clock' = TdAdd(clock, d)
    /\ pc' = "poll"
    /\ UNCHANGED <<cycles, args, run_start_time, run_length, procs, stdout,
                   sigterm_time, err, data, files, log, cycle_files, interval_call, format_call, logfile_period>>

\* process.wait given run_length alone as its timeout.
WaitTimesOutAtRunLength ==
    /\ pc = "wait"
    /\ Alive(Cur)
    /\ clock' = TdAdd(clock, run_length)
    /\ pc' = "poll"
    /\ UNCHANGED <<cycles, args, run_start_time, run_length, procs, stdout,
                   sigterm_time, err, data, files, log, cycle_files, interval_call, format_call, logfile_period>>

\* Lines 86-88: process.wait raises TimeoutExpired, which is passed over.
WaitTimesOut ==
    /\ pc = "wait"
    /\ Alive(Cur)
    /\ clock' = TdAdd(clock, AwaitTimeout)
    /\ pc' = "poll"
    /\ UNCHANGED <<cycles, args, run_start_time, run_length, procs, stdout,
                   sigterm_time, err, data, files, log, cycle_files, interval_call, format_call, logfile_period>>

\* The check of line 89 with the comparison turned around (== None).
PollCheckInverted ==
    /\ pc = "poll"
    /\ pc' = IF Alive(Cur) THEN "early_exit" ELSE "send_stop"
    /\ UNCHANGED <<clock, cycles, args, run_start_time, run_length, procs, stdout,
                   sigterm_time, err, data, files, log, cycle_files, interval_call, format_call, logfile_period>>

\* Line 89: process.poll() != None holds when the process has exited.
PollCheck ==
    /\ pc = "poll"
    /\ pc' = IF ~Alive(Cur) THEN "early_exit" ELSE "send_stop"
    /\ UNCHANGED <<clock, cycles, args, run_start_time, run_length, procs, stdout,
                   sigterm_time, err, data, files, log, cycle_files, interval_call, format_call, logfile_period>>

\* The RuntimeError of lines 92-94 and 100-102: the f-string decodes stdout and
\* then stderr, and a decoding that fails raises UnicodeDecodeError in place of
\* the RuntimeError.
RunError(text, out) ==
    IF Utf8Decode(out.stdout).ok /\ Utf8Decode(out.stderr).ok
    THEN [type |-> "RuntimeError", text |-> text,
          stdout |-> Utf8Decode(out.stdout).text, stderr |-> Utf8Decode(out.stderr).text]
    ELSE [NoError EXCEPT !.type = "UnicodeDecodeError"]

\* Lines 91-94: collect the output of the exited process and raise.
RaiseEarlyExit ==
    /\ pc = "early_exit"
    /\ procs' = [procs EXCEPT ![Cur].collected = TRUE]
    /\ err' = RunError("Profiler process terminated early.", procs[Cur].out)
    /\ pc' = "raised"
    /\ UNCHANGED <<clock, cycles, args, run_start_time, run_length, stdout,
                   sigterm_time, data, files, log, cycle_files, interval_call, format_call, logfile_period>>

\* Line 96, first half: communicate writes PROFILER_FINISH_INPUT to stdin and
\* closes it.  A process that has exited meanwhile gives a broken pipe, which
\* communicate passes over.
SendStop ==
    /\ pc = "send_stop"
    /\ procs' = [procs EXCEPT ![Cur].stdin_writes = @ + 1,
                              ![Cur].stop_received = Alive(Cur)]
    /\ pc' = "collect"
    /\ UNCHANGED <<clock, cycles, args, run_start_time, run_length, stdout,
                   sigterm_time, err, data, files, log, cycle_files, interval_call, format_call, logfile_period>>

\* communicate's pair unpacked the wrong way round: stderr taken for stdout.
CommunicateReturnsStderr ==
    /\ pc = "collect"
    /\ ~Alive(Cur)
    /\ \E d \in ExitLatencies(PROFILER_OUTPUT_WAIT_TIMEOUT) : clock' = TdAdd(clock, d)
    /\ procs' = [procs EXCEPT ![Cur].collected = TRUE]
    /\ stdout' = procs[Cur].out.stderr
    /\ pc' = "decode"
    /\ UNCHANGED <<cycles, args, run_start_time, run_length, sigterm_time, err,
                   data, files, log, cycle_files, interval_call, format_call, logfile_period>>

\* Line 96, second half: the process exits within the timeout and communicate
\* returns what it wrote.
CommunicateReturns ==
    /\ pc = "collect"
    /\ ~Alive(Cur)
    /\ \E d \in ExitLatencies(PROFILER_OUTPUT_WAIT_TIMEOUT) : clock' = TdAdd(clock, d)
    /\ procs' = [procs EXCEPT ![Cur].collected = TRUE]
    /\ stdout' = procs[Cur].out.stdout
    /\ pc' = "decode"
    /\ UNCHANGED <<cycles, args, run_start_time, run_length, sigterm_time, err,
                   data, files, log, cycle_files, interval_call, format_call, logfile_period>>

\* communicate called without a timeout: it never gives up on the process.
CommunicateNeverTimesOut == FALSE /\ UNCHANGED vars

\* Lines 96-97: communicate raises TimeoutExpired.
CommunicateTimesOut ==
    /\ pc = "collect"
    /\ Alive(Cur)
    /\ clock' = TdAdd(clock, PROFILER_OUTPUT_WAIT_TIMEOUT)
    /\ pc' = "end_process"
    /\ UNCHANGED <<cycles, args, run_start_time, run_length, procs, stdout,
                   sigterm_time, err, data, files, log, cycle_files, interval_call, format_call, logfile_period>>

\* Lines 104-106: decode and return; a decoding that fails raises.
DecodeAndReturn ==
    /\ pc = "decode"
    /\ LET r == Utf8Decode(stdout)
       IN  IF r.ok
           THEN data' = r.text /\ pc' = "write" /\ err' = err
           ELSE data' = data /\ pc' = "raised"
                /\ err' = [NoError EXCEPT !.type = "UnicodeDecodeError"]
    /\ UNCHANGED <<clock, cycles, args, run_start_time, run_length, procs, stdout,
                   sigterm_time, files, log, cycle_files, interval_call, format_call, logfile_period>>

-----------------------------------------------------------------------------
(* end_process, lines 20-35 *)

\* Lines 25-26: sigterm_time = time.time(), a float, and process.terminate().
EndProcessTerminate ==
    /\ pc = "end_process"
    /\ sigterm_time' = PyFloat(clock)
    /\ procs' = [procs EXCEPT ![Cur].terminates = @ + 1, ![Cur].terminated_at = clock]
    /\ pc' = "grace_loop"
    /\ UNCHANGED <<clock, cycles, args, run_start_time, run_length, stdout, err,
                   data, files, log, cycle_files, interval_call, format_call, logfile_period>>

\* The right-hand side of the comparison of line 27:
\* sigterm_time + SIGTERM_GRACE_PERIOD - SIGNAL_SUCCESS_CHECK_POLL_FREQUENCY.
GraceDeadline ==
    PySub(PyAdd(sigterm_time, PyTimedelta(SIGTERM_GRACE_PERIOD)),
          PyTimedelta(SIGNAL_SUCCESS_CHECK_POLL_FREQUENCY))

\* Line 27, the first evaluation of the loop condition: the sum of the float
\* sigterm_time and a timedelta raises TypeError.  The exception leaves
\* end_process and, raised inside the except block of lines 97-102, leaves
\* run_profiler.  Lines 28-35 (the polls, process.kill(), the second loop) and
\* line 99 are never reached.
EndProcessGraceCheck ==
    /\ pc = "grace_loop"
    /\ GraceDeadline.type = "TypeError"
    /\ err' = [NoError EXCEPT !.type = "TypeError", !.text = "unsupported operand type(s) for +"]
    /\ pc' = "raised"
    /\ UNCHANGED <<clock, cycles, args, run_start_time, run_length, procs, stdout,
                   sigterm_time, data, files, log, cycle_files, interval_call, format_call, logfile_period>>

-----------------------------------------------------------------------------
(* main, after run_profiler *)

\* The handler as a narrower except clause would be: only RuntimeError.
IsRuntimeErrorOnly(type) == type = "RuntimeError"

\* Line 148, except Exception: the classes derived from Exception.
IsException(type) ==
    type \in {"RuntimeError", "TypeError", "UnicodeDecodeError", "OSError",
              "AssertionError", "ZeroDivisionError"}

\* The handler with a pause before the next window.
HandleErrorWithBackoff ==
    /\ pc = "raised"
    /\ log' = Append(log, [level |-> "ERROR", message |-> err.text, detail |-> <<err.stdout, err.stderr>>])
    /\ pc' = "Scheduling"
    /\ clock' = TdAdd(clock, Td(1, 0))
    /\ UNCHANGED <<cycles, args, run_start_time, run_length, procs, stdout,
                   sigterm_time, err, data, files, cycle_files, interval_call, format_call, logfile_period>>

\* Lines 148-151: an Exception raised by run_profiler is logged and the loop
\* continues; anything else leaves main.
HandleError ==
    /\ pc = "raised"
    /\ IF IsException(err.type)
       THEN /\ log' = Append(log, [level |-> "ERROR", message |-> err.text, detail |-> <<err.stdout, err.stderr>>])
            /\ pc' = "Scheduling"
       ELSE /\ log' = log
            /\ pc' = "terminated"
    /\ UNCHANGED <<clock, cycles, args, run_start_time, run_length, procs, stdout,
                   sigterm_time, err, data, files, cycle_files, interval_call, format_call, logfile_period>>

\* Lines 129-133.
OutputFileExtension == IF args.output_format_raw THEN <<"j", "s", "o", "n">> ELSE <<"t", "x", "t">>

\* The time in the file name taken when the file is written.
CompletionTime == clock

\* The time in the file name, line 153: run_start_time.
FilenameTime == run_start_time

\* The name of line 153 without the cycle's start time.
OutputFilenameWithoutTime == args.fb_project \o <<".">> \o OutputFileExtension

\* Line 153.
OutputFilename == args.fb_project \o <<"-">> \o format_datetime_for_filename(FilenameTime) \o <<".">> \o OutputFileExtension

\* open(path, 'w') and write: the file is created, or its content replaced.
WriteTo(folder, name, content) == { f \in folder : f.name # name } \cup { [name |-> name, content |-> content] }

\* Lines 153-157: write data to the file named after the cycle's start.
WriteFile ==
    /\ pc = "write"
    /\ files' = WriteTo(files, OutputFilename, data)
    /\ log' = Append(log, [level |-> "INFO", message |-> "Wrote out", detail |-> <<OutputFilename>>])
    /\ pc' = "Scheduling"
    /\ UNCHANGED <<clock, cycles, args, run_start_time, run_length, procs, stdout,
                   sigterm_time, err, data, cycle_files, interval_call, format_call, logfile_period>>

-----------------------------------------------------------------------------
(* The specifications *)

\* The steps of the controller, the single thread of main.
Controller ==
    \/ Schedule
    \/ Popen
    \/ PopenFails
    \/ WaitReturns
    \/ WaitTimesOut
    \/ PollCheck
    \/ RaiseEarlyExit
    \/ SendStop
    \/ CommunicateReturns
    \/ CommunicateTimesOut
    \/ DecodeAndReturn
    \/ EndProcessTerminate
    \/ EndProcessGraceCheck
    \/ HandleError
    \/ WriteFile

\* The steps of the subordinates.
Subordinates == \E i \in 1..Len(procs) : ProcessExits(i)

\* A subordinate that was sent SIGKILL is reaped by the operating system.
KilledProcessExits == \E i \in 1..Len(procs) : procs[i].kills > 0 /\ ProcessExits(i)

Next == Controller \/ Subordinates

Spec == Init /\ [][Next]_vars

\* The values of LOGFILE_PERIOD a configuration may give: the program's 30
\* minutes; and 7 hours, 25 hours, 0.7 seconds, 24 hours and a microsecond,
\* and zero, which get_time_until_next_interval_start rejects.
ConfiguredPeriods ==
    { LOGFILE_PERIOD, Td(25200, 0), Td(90000, 0), Td(0, 700000), Td(SecondsPerDay, 1), TdZero }

\* The program started, without --raw, under one of these configurations.
InitConfig ==
    /\ pc = "Scheduling"
    /\ clock \in StartTimes
    /\ cycles = 0
    /\ args = [fb_project |-> <<"d", "b">>, output_format_raw |-> FALSE]
    /\ run_start_time = TdZero
    /\ run_length = TdZero
    /\ procs = <<>>
    /\ stdout = <<>>
    /\ sigterm_time = PyFloat(TdZero)
    /\ err = NoError
    /\ data = <<>>
    /\ files = {}
    /\ log = <<>>
    /\ cycle_files = {}
    /\ interval_call = NoIntervalCall
    /\ format_call = NoFormatCall
    /\ logfile_period \in ConfiguredPeriods

SpecConfig == InitConfig /\ [][Next]_vars

\* One start of the program: at 00:15:30.123456, without --raw.
FairInit == Init /\ clock = Td(930, 123456) /\ ~args.output_format_raw

\* The controller keeps running (its waits are bounded by their timeouts or end
\* with the process's exit), and a killed process eventually exits.
FairSpec == FairInit /\ [][Next]_vars /\ WF_vars(Controller) /\ WF_vars(KilledProcessExits)

-----------------------------------------------------------------------------
(* get_time_until_next_interval_start on its own, over times and periods *)

\* Times of day and dates: midnight, one microsecond later, the time of the
\* example, grid boundaries, the last microsecond of a day, a later day.
TestTimes ==
    { Td(0, 0), Td(0, 1), Td(930, 123456), Td(1800, 0), Td(1799, 999999),
      Td(3600, 500000), Td(43200, 0), Td(45296, 789000), Td(86399, 999999),
      Td(SecondsPerDay + 1800, 0), Td(2 * SecondsPerDay + 12345, 678901) }

\* Periods: 30 minutes, an hour, 24 hours, a minute, a second, half a second,
\* a millisecond; and periods the assertions reject: 7 hours, 25 hours,
\* 0.7 seconds, 24 hours and a microsecond; and zero.
TestPeriods ==
    { Td(1800, 0), Td(3600, 0), Td(SecondsPerDay, 0), Td(60, 0), Td(1, 0),
      Td(0, 500000), Td(0, 1000), Td(25200, 0), Td(90000, 0), Td(0, 700000),
      Td(SecondsPerDay, 1), Td(0, 0) }

InitInterval ==
    /\ pc = "interval"
    /\ clock = TdZero
    /\ cycles = 0
    /\ args = [fb_project |-> <<"d", "b">>, output_format_raw |-> FALSE]
    /\ run_start_time = TdZero
    /\ run_length = TdZero
    /\ procs = <<>>
    /\ stdout = <<>>
    /\ sigterm_time = PyFloat(TdZero)
    /\ err = NoError
    /\ data = <<>>
    /\ files = {}
    /\ log = <<>>
    /\ cycle_files = {}
    /\ format_call = NoFormatCall
    /\ logfile_period = LOGFILE_PERIOD
    /\ \E t \in TestTimes, p \in TestPeriods :
          interval_call = [current_datetime |-> t, interval_period |-> p, done |-> FALSE, result |-> Returned(TdZero)]

CallInterval ==
    /\ pc = "interval"
    /\ ~interval_call.done
    /\ interval_call' = [interval_call EXCEPT
           !.done = TRUE,
           !.result = get_time_until_next_interval_start(interval_call.current_datetime, interval_call.interval_period)]
    /\ UNCHANGED <<pc, clock, cycles, args, run_start_time, run_length, procs, stdout,
                   sigterm_time, err, data, files, log, cycle_files, format_call, logfile_period>>

SpecInterval == InitInterval /\ [][CallInterval]_vars

-----------------------------------------------------------------------------
(* format_datetime_for_filename on its own, over UTC datetimes *)

\* Seconds from midnight of the reference day: midnight, the time of the
\* example, the ends of a minute, an hour and a day, later days, the last
\* second of the month.
FormatSeconds ==
    { 0, 59, 930, 1800, 3599, 3600, 43200, 45296, 86399, SecondsPerDay + 930,
      2 * SecondsPerDay + 3661, 9 * SecondsPerDay + 36000, 30 * SecondsPerDay + 86399 }

FormatMicroseconds == { 0, 1, 123456, 500000, 999999 }

InitFormat ==
    /\ pc = "format"
    /\ clock = TdZero
    /\ cycles = 0
    /\ args = [fb_project |-> <<"d", "b">>, output_format_raw |-> FALSE]
    /\ run_start_time = TdZero
    /\ run_length = TdZero
    /\ procs = <<>>
    /\ stdout = <<>>
    /\ sigterm_time = PyFloat(TdZero)
    /\ err = NoError
    /\ data = <<>>
    /\ files = {}
    /\ log = <<>>
    /\ cycle_files = {}
    /\ interval_call = NoIntervalCall
    /\ logfile_period = LOGFILE_PERIOD
    /\ \E s \in FormatSeconds, us \in FormatMicroseconds :
          format_call = [value |-> Td(s, us), done |-> FALSE, result |-> <<>>]

CallFormat ==
    /\ pc = "format"
    /\ ~format_call.done
    /\ format_call' = [format_call EXCEPT
           !.done = TRUE,
           !.result = format_datetime_for_filename(format_call.value)]
    /\ UNCHANGED <<pc, clock, cycles, args, run_start_time, run_length, procs, stdout,
                   sigterm_time, err, data, files, log, cycle_files, interval_call,
                   logfile_period>>

SpecFormat == InitFormat /\ [][CallFormat]_vars

-----------------------------------------------------------------------------
(* Properties *)

\* The current cycle has launched its process (Popen did not fail).
CycleProcLaunched == Len(procs) > 0 /\ procs[Cur].cycle = cycles

\* The current cycle called end_process and control has left it.
EndProcessOver ==
    /\ CycleProcLaunched
    /\ procs[Cur].terminates > 0
    /\ pc # "grace_loop"

\* The error run_profiler raises for an exit seen at line 89.
EarlyExitErrorOf(p) ==
    IF Utf8Decode(p.out.stdout).ok /\ Utf8Decode(p.out.stderr).ok
    THEN [type |-> "RuntimeError", text |-> "Profiler process terminated early.",
          stdout |-> Utf8Decode(p.out.stdout).text,
          stderr |-> Utf8Decode(p.out.stderr).text]
    ELSE [type |-> "UnicodeDecodeError", text |-> "", stdout |-> <<>>, stderr |-> <<>>]

\* C1: at most one subordinate process is alive at any time, so that no cycle
\* launches its process while the process of an earlier cycle is alive.
C1_AtMostOneAlive == Cardinality(AliveProcs) <= 1

\* C2: the control loop never ends because of a subordinate fault: main is
\* never left, and every error raised in run_profiler (one raised in
\* end_process included) is logged and followed by Scheduling.
C2_LoopSurvivesRunErrors ==
    /\ [](pc # "terminated")
    /\ [][(pc = "raised" /\ pc' # pc) =>
            /\ pc' = "Scheduling"
            /\ Len(log') = Len(log) + 1
            /\ log'[Len(log')].level = "ERROR"]_vars

\* C2, witness: the TypeError raised in end_process was logged and the loop is
\* back at Scheduling.
C2_Witness ==
    /\ pc = "Scheduling"
    /\ err.type = "TypeError"
    /\ Len(log) > 0
    /\ log[Len(log)].level = "ERROR"

\* C3: when the process outlives the timeout after the stop token and
\* run_profiler raises, the error is the 'failed to terminate' RuntimeError and
\* the process has exited.
C3_UnresponsiveRaisesFailedToTerminate ==
    (pc = "raised" /\ EndProcessOver) =>
        /\ err.type = "RuntimeError"
        /\ err.text = "Profiler process failed to terminate."
        /\ ~Alive(Cur)

C5_KillOnceGraceExpired ==
    \A i \in 1..Len(procs) :
        ( /\ procs[i].terminates > 0
          /\ Alive(i)
          /\ TdLeq(TdAdd(procs[i].terminated_at, SIGTERM_GRACE_PERIOD), clock) )
        => procs[i].kills = 1

\* C6 as stated: a cycle on its way to a success result delivered the stop
\* token to a live process, that is, a process that exited before the token
\* was written never yields success.
C6_ExitBeforeStopNeverSucceeds ==
    (pc \in {"decode", "write"} /\ CycleProcLaunched) => procs[Cur].stop_received

\* C6 amended: a process that has exited when line 89 polls it makes
\* run_profiler raise: the early-exit RuntimeError with the decoded stdout and
\* stderr, or UnicodeDecodeError when one of them is no UTF-8; the stop token
\* is not written and no success result follows.
C6_ExitSeenAtPollRaises ==
    /\ [][(pc = "poll" /\ ~Alive(Cur) /\ pc' # pc) => pc' = "early_exit"]_vars
    /\ [][(pc = "early_exit" /\ pc' # pc) =>
            /\ pc' = "raised"
            /\ err' = EarlyExitErrorOf(procs[Cur])
            /\ procs'[Cur].stdin_writes = 0]_vars

\* C6, witness: the early-exit error carrying "hi" was raised.
C6_Witness ==
    /\ pc = "raised"
    /\ err.text = "Profiler process terminated early."
    /\ err.stdout = <<104, 105>>
    /\ procs[Cur].stdin_writes = 0

\* C7: the step that ends a successful cycle leaves the output folder as it
\* was when the cycle began but for one file: its name is the project, the
\* formatted start time (read before Popen, earlier than the completion) and
\* the extension, its content the decoded standard output of the process.
C7_SuccessWritesOneFile ==
    [][(pc = "write" /\ pc' # pc) =>
        LET name == args.fb_project \o <<"-">>
                        \o format_datetime_for_filename(run_start_time)
                        \o <<".">> \o OutputFileExtension
            text == Utf8Decode(procs[Cur].out.stdout).text
        IN  /\ files' = { f \in cycle_files : f.name # name }
                            \cup { [name |-> name, content |-> text] }
            /\ Cardinality(files' \ cycle_files) = 1
            /\ TdLeq(run_start_time, procs[Cur].launched_at)
            /\ TdLess(procs[Cur].launched_at, clock)
            /\ pc' = "Scheduling"]_vars

\* C7, witness: a cycle wrote U+00E9 to a file and the loop is back at
\* Scheduling.
C7_Witness ==
    /\ pc = "Scheduling"
    /\ Len(log) > 0
    /\ log[Len(log)].message = "Wrote out"
    /\ \E f \in files : f.content = <<233>> /\ f \notin cycle_files

\* C8: a cycle that fails has left the output folder as it was when the cycle
\* began, and its handler goes to Scheduling without letting time pass.
C8_FailureLeavesFilesAndTime ==
    /\ [](pc = "raised" => files = cycle_files)
    /\ [][(pc = "raised" /\ pc' # pc) =>
            /\ pc' = "Scheduling"
            /\ files' = cycle_files
            /\ clock' = clock]_vars

\* C8, witness: the second cycle failed after the first had written a file,
\* and the folder is as that cycle found it.
C8_Witness ==
    /\ pc = "Scheduling"
    /\ cycles = 2
    /\ err.type = "RuntimeError"
    /\ files # {}
    /\ files = cycle_files

\* A period the function accepts: positive, at most 24 hours, dividing them.
ValidPeriod(p) == TdLess(TdZero, p) /\ TdLeq(p, Hours24) /\ TdMod(Hours24, p) = TdZero

\* The offset of a datetime from its midnight.
OffsetFromMidnight(t) == Td(t[1] % SecondsPerDay, t[2])

\* C9: for a valid period p the result r is p - (offset mod p); it lies in
\* (0, p], r + (offset mod p) = p, offset + r is on the grid, and on a
\* boundary r is p.
C9_IntervalRemainder ==
    (interval_call.done /\ ValidPeriod(interval_call.interval_period)) =>
        LET p   == interval_call.interval_period
            off == OffsetFromMidnight(interval_call.current_datetime)
            r   == interval_call.result.value
        IN  /\ interval_call.result.raised = "none"
            /\ TdLess(TdZero, r)
            /\ TdLeq(r, p)
            /\ TdAdd(r, TdMod(off, p)) = p
            /\ TdMod(TdAdd(off, r), p) = TdZero
            /\ (TdMod(off, p) = TdZero => r = p)

\* C9, witness: at 00:30:00 exactly, with a period of 30 minutes, the result
\* is 30 minutes.
C9_Witness ==
    /\ interval_call.done
    /\ interval_call.current_datetime = Td(1800, 0)
    /\ interval_call.interval_period = Td(1800, 0)
    /\ interval_call.result = Returned(Td(1800, 0))

\* C10: every cycle that has entered Capturing comes back to Scheduling.
C10_CycleReturnsToScheduling == (pc = "launch") ~> (pc = "Scheduling")

\* C10, witness: a cycle whose process ignores the stop token and SIGTERM is
\* over, the process still alive.
C10_Witness ==
    /\ pc = "Scheduling"
    /\ CycleProcLaunched
    /\ procs[Cur].beh = "onKill"
    /\ procs[Cur].terminates = 1
    /\ Alive(Cur)

\* C11 as stated: a cycle that wrote the stop token and whose process exited
\* within the timeout returns success, so a cycle that wrote the token raises
\* only on the path through end_process.
C11_StopAnsweredInTimeSucceeds ==
    (pc = "raised" /\ CycleProcLaunched /\ procs[Cur].stdin_writes = 1)
        => procs[Cur].terminates > 0

\* C11 amended: when the process has exited within the timeout after the stop
\* token, communicate returns its standard output in less than the timeout;
\* run_profiler returns the decoded text when the output is UTF-8 and raises
\* UnicodeDecodeError when it is not; no terminate() and no kill() is sent.
C11_StopAnsweredInTimeDecodes ==
    /\ [](pc \in {"decode", "write"} =>
            /\ procs[Cur].stdin_writes = 1
            /\ procs[Cur].terminates = 0
            /\ procs[Cur].kills = 0)
    /\ [][(pc = "collect" /\ ~Alive(Cur) /\ pc' # pc) =>
            /\ pc' = "decode"
            /\ stdout' = procs[Cur].out.stdout
            /\ TdLess(clock', TdAdd(clock, PROFILER_OUTPUT_WAIT_TIMEOUT))]_vars
    /\ [][(pc = "decode" /\ pc' # pc) =>
            IF Utf8Decode(procs[Cur].out.stdout).ok
            THEN pc' = "write" /\ data' = Utf8Decode(procs[Cur].out.stdout).text
            ELSE pc' = "raised" /\ err'.type = "UnicodeDecodeError"]_vars

\* C11, witness: the process received the stop token, exited in time, and
\* run_profiler has returned U+00E9 with no signal sent.
C11_Witness ==
    /\ pc = "write"
    /\ data = <<233>>
    /\ procs[Cur].stop_received
    /\ procs[Cur].terminates = 0
    /\ procs[Cur].kills = 0

\* The text 2023-05-01T00-15-30Z.
ExampleFilenameTime ==
    <<"2", "0", "2", "3", "-", "0", "5", "-", "0", "1", "T",
      "0", "0", "-", "1", "5", "-", "3", "0", "Z">>

\* C12: the result is the ISO-8601 text of the datetime without its
\* microseconds, with 'Z' for '+00:00' and '-' for every ':': twenty
\* characters, date, 'T', the two-digit hour, minute and second separated by
\* '-', and 'Z'; it does not depend on the microseconds; for
\* 2023-05-01T00:15:30.123456+00:00 it is 2023-05-01T00-15-30Z.
C12_FilenameTimeFormat ==
    format_call.done =>
        LET v == format_call.value
            r == format_call.result
            s == v[1] % SecondsPerDay
        IN  /\ Len(r) = 20
            /\ \A i \in 1..Len(r) : r[i] \notin {":", "+", "."}
            /\ SubSeq(r, 1, 11) = SubSeq(IsoFormat(v), 1, 11)
            /\ SubSeq(r, 12, 20) =
                   TwoDigits(s \div 3600) \o <<"-">> \o TwoDigits((s \div 60) % 60)
                       \o <<"-">> \o TwoDigits(s % 60) \o <<"Z">>
            /\ r = StrReplace(StrReplace(IsoFormat(Td(v[1], 0)),
                                         <<"+", "0", "0", ":", "0", "0">>, <<"Z">>), <<":">>, <<"-">>)
            /\ (v = Td(930, 123456) => r = ExampleFilenameTime)

\* C12, witness: the example has been formatted.
C12_Witness ==
    /\ format_call.done
    /\ format_call.value = Td(930, 123456)
    /\ format_call.result = ExampleFilenameTime

\* C13: a call of end_process ends by returning: control never leaves
\* end_process through an exception.
C13_EndProcessReturns == EndProcessOver => err.type # "TypeError"

\* The cycle of subordinate i, once over, has failed: it went through
\* end_process, or its process was collected after an early exit, or with an
\* output that is no UTF-8.
CycleFailed(i) ==
    \/ procs[i].terminates > 0
    \/ procs[i].collected /\ procs[i].stdin_writes = 0
    \/ procs[i].collected /\ ~Utf8Decode(procs[i].out.stdout).ok

\* C14 as stated: a subordinate launched after a failed cycle is launched for
\* a window that ends at a later grid boundary than the failed cycle's.
C14_FailedWindowNotRetried ==
    \A i, j \in 1..Len(procs) :
        (i < j /\ CycleFailed(i)) => TdLess(procs[i].window_end, procs[j].window_end)

\* C14 amended: a subordinate launched after a failed cycle is launched for
\* the window that ends at the first grid boundary after its own start: a
\* later boundary than the failed cycle's when it starts at or after that
\* boundary, the same boundary when the failure left time before it.
C14_FailedWindowResumedOrSkipped ==
    \A i, j \in 1..Len(procs) :
        (i < j /\ CycleFailed(i)) =>
            /\ TdLeq(procs[i].window_end, procs[j].window_end)
            /\ TdLess(procs[j].launched_at, procs[j].window_end)
            /\ TdLeq(TdSub(procs[j].window_end, procs[j].launched_at), LOGFILE_PERIOD)
            /\ (procs[j].window_end = procs[i].window_end
                    <=> TdLess(procs[j].launched_at, procs[i].window_end))

\* C14, witnesses: after an early exit a second subordinate was launched for
\* the same window; after a failure past the boundary, for a later one.
C14_Witness ==
    /\ Len(procs) = 2
    /\ CycleFailed(1)
    /\ procs[1].stdin_writes = 0
    /\ procs[2].window_end = procs[1].window_end

C14_WitnessSkipped ==
    /\ Len(procs) = 2
    /\ CycleFailed(1)
    /\ TdLess(procs[1].window_end, procs[2].window_end)

\* The stop token is on its way or behind: the controller is between the
\* write of line 96 and the end of the cycle's success path.
AfterStopToken == pc \in {"collect", "decode", "write", "end_process", "grace_loop"}

\* What holds in every state of a cycle's lifecycle.
LifecycleState ==
    /\ \A i \in 1..Len(procs) :
          /\ procs[i].stdin_writes \in {0, 1}
          /\ procs[i].kills = 0
          /\ procs[i].terminates \in {0, 1}
          /\ procs[i].terminates = 1 => procs[i].stdin_writes = 1
    /\ pc = "early_exit" => procs[Cur].stdin_writes = 0
    /\ err.text = "Profiler process terminated early." => procs[Cur].stdin_writes = 0
    /\ (Len(procs) > 0 /\ procs[Cur].stdin_writes = 1 /\ procs[Cur].cycle = cycles
            /\ pc \notin {"Scheduling", "launch"})
          => (AfterStopToken \/ pc \in {"raised", "terminated"})

\* What holds of every step of a cycle's lifecycle.
LifecycleStep ==
    /\ \A i \in 1..Len(procs) :
          /\ procs'[i].stdin_writes # procs[i].stdin_writes =>
                /\ i = Cur
                /\ pc = "send_stop"
                /\ pc' = "collect"
          /\ procs'[i].terminates # procs[i].terminates =>
                /\ i = Cur
                /\ pc = "end_process"
          /\ procs'[i].kills = procs[i].kills
    /\ (pc' = "send_stop" /\ pc # "send_stop") =>
          /\ pc = "poll"
          /\ Alive(Cur)
          /\ procs[Cur].stdin_writes = 0
    /\ (pc' = "poll" /\ pc # "poll") => pc = "wait"
    /\ (pc' = "end_process" /\ pc # "end_process") =>
          /\ pc = "collect"
          /\ procs[Cur].stdin_writes = 1
          /\ clock' = TdAdd(clock, PROFILER_OUTPUT_WAIT_TIMEOUT)

\* C15: within a cycle the stop token is written at most once, only after
\* process.wait has ended and poll has found the subordinate alive, never on
\* the early-exit path; terminate is sent only after the stop token was
\* written and communicate's timeout has run out, and kill is not sent before
\* that.
C15_StopTokenThenSignals == []LifecycleState /\ [][LifecycleStep]_vars

\* C15, witness: a subordinate has had the stop token, once, and then
\* terminate.
C15_Witness ==
    /\ Len(procs) > 0
    /\ procs[Cur].stdin_writes = 1
    /\ procs[Cur].terminates = 1

\* How long process.wait has blocked, in the step that ends it.
WaitBlocked == TdSub(clock', clock)

\* C16: process.wait ends when the subordinate exits or when run_length +
\* PROFILER_OUTPUT_WAIT_TIMEOUT is over, whichever is first; a subordinate
\* found exited after it makes the cycle raise, so that the success path is
\* entered only run_length + PROFILER_OUTPUT_WAIT_TIMEOUT after the wait
\* began, with the subordinate alive.
AwaitStep ==
    /\ (pc = "wait" /\ pc' # "wait") =>
          /\ pc' = "poll"
          /\ TdLeq(WaitBlocked, AwaitTimeout)
          /\ TdLess(WaitBlocked, AwaitTimeout) => ~Alive(Cur)
          /\ WaitBlocked = AwaitTimeout => Alive(Cur)
    /\ (pc = "poll" /\ pc' # "poll") =>
          pc' = IF Alive(Cur) THEN "send_stop" ELSE "early_exit"
    /\ (pc = "early_exit" /\ pc' # "early_exit") =>
          /\ pc' = "raised"
          /\ err'.type \in {"RuntimeError", "UnicodeDecodeError"}
          /\ files' = files

AwaitState ==
    /\ pc \in {"send_stop", "collect", "decode", "write"} =>
          TdLeq(TdAdd(procs[Cur].launched_at, AwaitTimeout), clock)
    /\ pc = "write" => procs[Cur].stdin_writes = 1

C16_ExitWithinAwaitRaises == []AwaitState /\ [][AwaitStep]_vars

\* C16, witness: the subordinate exited one microsecond before the deadline
\* of process.wait, and the cycle raised the early-exit error.
C16_Witness ==
    /\ pc = "raised"
    /\ err.text = "Profiler process terminated early."
    /\ TdLeq(TdAdd(procs[Cur].launched_at, run_length), clock)

\* The number of entries of the log that report a written file.
RECURSIVE WroteOutCount(_)
WroteOutCount(n) ==
    IF n = 0 THEN 0
    ELSE WroteOutCount(n - 1) + (IF log[n].message = "Wrote out" THEN 1 ELSE 0)

\* The cycle of subordinate i is over and has succeeded.
CycleSucceeded(i) ==
    /\ procs[i].collected
    /\ procs[i].stdin_writes = 1
    /\ procs[i].terminates = 0
    /\ Utf8Decode(procs[i].out.stdout).ok
    /\ (i = Cur /\ procs[i].cycle = cycles) => pc \in {"write", "Scheduling", "terminated"}

\* C17: the write that ends a successful cycle creates a file whose name no
\* file of the folder has; the folder holds as many files as cycles have
\* written; and whatever is launched after a successful cycle is launched at
\* least PROFILER_OUTPUT_WAIT_TIMEOUT, more than the second of the names'
\* precision, after it.
C17_WriteNeverOverwrites ==
    /\ [](Cardinality(files) = WroteOutCount(Len(log)))
    /\ [](\A f, g \in files : f.name = g.name => f = g)
    /\ [](\A i, j \in 1..Len(procs) :
             (i < j /\ CycleSucceeded(i)) =>
                 TdLeq(TdAdd(procs[i].launched_at, PROFILER_OUTPUT_WAIT_TIMEOUT),
                       procs[j].launched_at))
    /\ [][(pc = "write" /\ pc' # pc) =>
             /\ \A f \in files : f.name # OutputFilename
             /\ files \subseteq files'
             /\ Cardinality(files') = Cardinality(files) + 1]_vars

\* C17, witness: two cycles have succeeded and the folder holds two files.
C17_Witness ==
    /\ Cardinality(files) = 2
    /\ WroteOutCount(Len(log)) = 2

\* C18: under a period greater than 24 hours, or that does not divide 24
\* hours, the first call of get_time_until_next_interval_start returns no
\* duration: it raises AssertionError (a period of zero raises
\* ZeroDivisionError in the modulo of line 59, before the comparison); the
\* raise is outside the try of lines 146-151, so main ends there: nothing was
\* launched, logged or written, and no handler brings the loop back.
C18_InvalidPeriodIsFatal ==
    /\ []((cycles > 0 /\ ~ValidPeriod(logfile_period)) =>
            /\ pc = "terminated"
            /\ err.type = (IF logfile_period = TdZero THEN "ZeroDivisionError"
                           ELSE "AssertionError")
            /\ cycles = 1
            /\ run_length = TdZero
            /\ procs = <<>>
            /\ log = <<>>
            /\ files = {})
    /\ []((cycles > 0 /\ ValidPeriod(logfile_period)) =>
            err.type \notin {"AssertionError", "ZeroDivisionError"})
    /\ [][pc = "terminated" => (pc' = "terminated" /\ err' = err /\ log' = log)]_vars

\* C18, witness: configured with 25 hours, and with 7 hours, main has ended
\* with the AssertionError.
C18_Witness ==
    /\ pc = "terminated"
    /\ err.type = "AssertionError"
    /\ logfile_period = Td(90000, 0)

C18_WitnessNotDividing ==
    /\ pc = "terminated"
    /\ err.type = "AssertionError"
    /\ logfile_period = Td(25200, 0)

\* A datetime is on the grid: its offset from midnight is a multiple of
\* LOGFILE_PERIOD.
OnGrid(t) == TdMod(OffsetFromMidnight(t), LOGFILE_PERIOD) = TdZero

\* A cycle is under way: Schedule has computed its window.
WindowComputed == pc \in {"launch", "wait", "poll", "early_exit", "send_stop", "collect",
                          "decode", "end_process", "grace_loop", "raised", "write"}

\* C19: the window of every cycle ends on a grid boundary, after its start
\* and no more than LOGFILE_PERIOD after it; and the cycle that follows a
\* successful one starts PROFILER_OUTPUT_WAIT_TIMEOUT or more after the
\* boundary the successful one ended on, so never on that boundary: its window
\* is not contiguous to the window before.
C19_WindowsEndOnGridAndLeaveGap ==
    /\ WindowComputed =>
          /\ OnGrid(TdAdd(run_start_time, run_length))
          /\ TdLess(TdZero, run_length)
          /\ TdLeq(run_length, LOGFILE_PERIOD)
    /\ \A i \in 1..Len(procs) : OnGrid(procs[i].window_end)
    /\ (WindowComputed /\ Len(procs) > 0 /\ procs[Cur].cycle < cycles /\ CycleSucceeded(Cur)) =>
          /\ TdLeq(TdAdd(procs[Cur].window_end, PROFILER_OUTPUT_WAIT_TIMEOUT), run_start_time)
          /\ ~OnGrid(run_start_time) \/ TdLess(procs[Cur].window_end, run_start_time)
    /\ \A i, j \in 1..Len(procs) :
          (i < j /\ CycleSucceeded(i)) =>
              /\ TdLeq(TdAdd(procs[i].window_end, PROFILER_OUTPUT_WAIT_TIMEOUT),
                       procs[j].launched_at)
              /\ TdLess(procs[i].window_end, procs[j].window_end)
              /\ TdLess(TdSub(procs[j].window_end, procs[j].launched_at),
                        TdSub(procs[j].window_end, procs[i].window_end))

\* C19, witness: a cycle succeeded, and the next one's window has been
\* computed from a start past the boundary.
C19_Witness ==
    /\ pc = "launch"
    /\ Len(procs) = 1
    /\ CycleSucceeded(1)
    /\ TdLess(procs[1].window_end, run_start_time)

=============================================================================
